---- MODULE Spec2Model ----
(***************************************************************************)
(* Model of src/sunburn-controller.py: the solar power controller's tick   *)
(* loop (main), its console (interface), the PID (adjust) and the          *)
(* averaging windows.                                                      *)
(*                                                                         *)
(* Units.  The source computes in floats; the model keeps the same values  *)
(* as integers in fixed point:                                             *)
(*   power (watts)          in tenths of a watt      (18 W   -> 180)       *)
(*   integral               in tenths                (10     -> 100)       *)
(*   PID gains              in halves                (0.5    -> 1)         *)
(*   cpu limit (percent)    in 1/CpuUnit of a percent (7 %   -> 7*CpuUnit) *)
(* CpuUnit = 2*10*10*DT makes every term of adjust's sum an integer.       *)
(*                                                                         *)
(* Reading of the source.  The file has slips of spelling that stop Python *)
(* before any statement runs (`pid[19, 0.5, 1]` for `pid = [...]`,         *)
(* `measurement` for `measurements`, `manual_target` beside                *)
(* `manual_power_target`, indentation); the model reads them as the        *)
(* assignments and names they stand for and keeps manual_target and        *)
(* manual_power_target as the two variables they are.  The statements      *)
(* themselves are modelled as written, with the exceptions they raise: an  *)
(* uncaught exception ends the program (pc = "crashed").                   *)
(* The diagnostic accumulator `budget` (line 448) is never read by the     *)
(* control logic and is left out.                                          *)
(***************************************************************************)
EXTENDS Integers, Sequences, FiniteSets, TLC

VARIABLES
  pc,                   \* "poll": top of the loop; "run": console polled; "crashed"
  mode, pid, processor_limits, manual_target, manual_power_target,
  adjust_interval, powered, power_counter,
  power_target, power, cpu_use, integral, previous_error,
  supply_power, supply_power_avg, usage_power, usage_power_avg,
  \* observation of the last tick and of the console (not read by the program)
  pwr_calls,            \* pwr.power_on / pwr.power_off calls of the last tick
  sent,                 \* udpcomms.send_msg calls of the last tick, in order
  was_powered,          \* powered at the start of the last tick
  ticks,                \* ticks started, counted up to MaxTicks
  folded,               \* value appended to the supply windows by the last tick
  entry,                \* what the operator last typed at the console
  run_above,            \* consecutive ticks above MIN_POWER that began unpowered
  run_on,               \* power_on was issued during that run
  geared,               \* <<cores, cpu>> as the adjustment routine of the last
                        \* tick left them, <<>> if it did not run
  supply_seen, usage_seen,  \* the samples the measurement subsystem delivered
  inbound,              \* the kind of message wait_msg returned to the last tick
  act,                  \* the last activation of the adjustment routine: what
                        \* it was given and what adjust returned (see Activate)
  exception             \* the exception that ended the program, "" if none

ctl == <<mode, pid, processor_limits, manual_target, manual_power_target,
         adjust_interval, powered, power_counter, integral, previous_error>>
meas == <<power_target, power, cpu_use>>
windows == <<supply_power, supply_power_avg, usage_power, usage_power_avg>>
obs == <<pwr_calls, sent, was_powered, ticks, folded, run_above, run_on,
         geared>>
seen == <<supply_seen, usage_seen>>
probe == <<inbound, act>>
vars == <<pc, ctl, meas, windows, obs, seen, probe, entry, exception>>

---------------------------------------------------------------------------
\* Program constants (lines 36-64), in the units above.

CORES == 4
MIN_POWER == 180
CHANGE_DEADZONE == 15
SHORT_AVG == 1
LONG_AVG == 6
ADJUST_INTERVAL == 1
OFF_LIMIT == 2
ON_LIMIT == 2
DT == 4
MODE_AUTO == 0
MODE_LIMIT_TEST == 1
MODE_PWR_TEST == 2

\* core_limits (line 244); Python's index i is the model's i + 1.
core_limits == <<160, 310, 334, 470, 515>>
CoreLimit(i) == core_limits[i + 1]

CpuUnit == 2 * 10 * 10 * DT
CPU_FLOOR == 7 * CpuUnit
CPU_CEIL == 100 * CpuUnit

\* Initial values (lines 208-250).
InitPid == <<38, 1, 2>>
InitLimits == <<CPU_FLOOR, 0>>

---------------------------------------------------------------------------
\* Bounds of the model: the inputs that are enumerated.

MaxTicks == 2

\* supply / manual power values (tenths of a watt)
Targets == {50, 180, 320, 600}
\* usage power samples
Usages == {0, 200, 400}
\* averaged usage power handed to the control section
Powers == {0, 200}
\* status replies: <<kind, value>>
Messages == {<<"none", 0>>, <<"status", 35>>, <<"status_bad", 0>>,
             <<"status_nofield", 0>>, <<"other", 0>>}
\* console entries
Keys == {"m", "p", ""}
Selections == {"l", "p", "a", "x"}
\* the three gains typed at the prompts (halves): kp only; ki-heavy
GainEntries == {<<38, 0, 0>>, <<2, 20, 8>>}
CpuEntries == {5 * CpuUnit, 50 * CpuUnit + CpuUnit \div 2, 120 * CpuUnit}
CoreEntries == {0, 25, 90}      \* tenths: 0, 2.5, 9
PowerEntries == {50, 250}       \* tenths of a watt: 5 W, 25 W

---------------------------------------------------------------------------
\* Helpers.

Min(a, b) == IF a < b THEN a ELSE b
Abs(a) == IF a < 0 THEN -a ELSE a

\* Python's int(x) of the quotient a/b: truncation towards zero.
TruncDiv(a, b) ==
  IF (a >= 0) = (b > 0) THEN Abs(a) \div Abs(b) ELSE -(Abs(a) \div Abs(b))

RECURSIVE Sum(_)
Sum(data) == IF data = <<>> THEN 0 ELSE data[1] + Sum(Tail(data))

\* average (lines 190-192): sum(data) / float(len(data)).  Called only on
\* a non-empty window here (the empty case raises ZeroDivisionError and is
\* decided before the call); the windows averaged hold SHORT_AVG = 1 entry,
\* for which the quotient is exact.
average(data) == Sum(data) \div Len(data)

---------------------------------------------------------------------------
\* adjust (lines 165-188).  Returns <<adjustment, new_integral, error>>.
\* The integral term uses the integral passed in, not new_integral.

\* (variant checked against C13: the upper limit of lines 174-175 missing)
adjust_NoUpperLimit(target, measured, integ, gains, prev_error) ==
  LET error == target - measured
      raw == integ + error * DT
      new_integral == IF raw < -100 THEN -100 ELSE raw
      adjustment == DT * gains[1] * error + DT * gains[2] * integ
                    + gains[3] * (error - prev_error)
  IN <<adjustment, new_integral, error>>

\* (variant checked against C14: the integral term of line 179 missing)
adjust_NoIntegralTerm(target, measured, integ, gains, prev_error) ==
  LET error == target - measured
      raw == integ + error * DT
      new_integral == IF raw > 100 THEN 100
                      ELSE IF raw < -100 THEN -100 ELSE raw
      adjustment == DT * gains[1] * error + gains[3] * (error - prev_error)
  IN <<adjustment, new_integral, error>>

adjust(target, measured, integ, gains, prev_error) ==
  LET error == target - measured
      raw == integ + error * DT
      new_integral == IF raw > 100 THEN 100
                      ELSE IF raw < -100 THEN -100 ELSE raw
      adjustment == DT * gains[1] * error + DT * gains[2] * integ
                    + gains[3] * (error - prev_error)
  IN <<adjustment, new_integral, error>>

---------------------------------------------------------------------------
\* The control section of the loop (lines 341-445) as functions of the loop
\* state s = [mode, pid, cpu, cores, integral, previous_error,
\* adjust_interval, powered, power_counter, pwr_calls, sent], where
\* cpu = processor_limits[0] and cores = processor_limits[1].

\* lines 361 and 393: int(((power_target - lower) / (upper - lower)) * 100)
\* The quotient is taken exactly.  Python takes it in binary floating point,
\* which for some supply values whose exact quotient is a whole number
\* truncates to the number below (16.9 W between 16 and 31 gives 5, not 6);
\* for every value of Targets and ShiftTargets the two agree.
Interpolate(pt, lower, upper) ==
  TruncDiv((pt - lower) * 100, upper - lower) * CpuUnit

\* (variant checked against C6: the lower clamp of lines 402-403 missing)
ClampCpu_NoFloor(x) == IF x > CPU_CEIL THEN CPU_CEIL ELSE x

\* lines 400-403
ClampCpu(x) ==
  IF x > CPU_CEIL THEN CPU_CEIL ELSE IF x < CPU_FLOOR THEN CPU_FLOOR ELSE x

\* (variant checked against C17: the core count raised, the cpu limit left
\* to the PID)
Upshift_NoSnap(s, pt) ==
  LET n == s.cores + 1
  IN IF n > CORES THEN [s EXCEPT !.cores = CORES] ELSE [s EXCEPT !.cores = n]

\* (variant checked against C20: the core count raised by two)
Upshift_Jump(s, pt) ==
  LET n == s.cores + 2
  IN IF n > CORES
     THEN [s EXCEPT !.cores = CORES]
     ELSE [s EXCEPT !.cores = n,
                    !.cpu = Interpolate(pt, CoreLimit(n - 1), CoreLimit(n))]

\* lines 352-361: change upward
Upshift(s, pt) ==
  LET n == s.cores + 1
  IN IF n > CORES
     THEN [s EXCEPT !.cores = CORES]
     ELSE [s EXCEPT !.cores = n,
                    !.cpu = Interpolate(pt, CoreLimit(n - 1), CoreLimit(n))]

\* (variant checked against C18: the deadzone added to the entry, not taken
\* off it)
Downshift_DeadzoneAbove(s, pt) ==
  IF pt < CoreLimit(s.cores - 1) + CHANGE_DEADZONE
  THEN LET n == s.cores - 1
       IN IF n < 1
          THEN [s EXCEPT !.cores = 1]
          ELSE LET upper == IF n < 2 THEN CoreLimit(1)
                            ELSE IF n < 3 THEN CoreLimit(2) ELSE CoreLimit(3)
                   lower == IF n < 3 THEN CoreLimit(0) ELSE CoreLimit(2)
               IN [s EXCEPT !.cores = n,
                            !.cpu = Interpolate(pt, lower, upper),
                            !.integral = IF s.integral > 50
                                         THEN s.integral - 10 ELSE s.integral]
  ELSE s

\* lines 369-397: change downward (entered with cores > 1)
Downshift(s, pt) ==
  IF pt < CoreLimit(s.cores - 1) - CHANGE_DEADZONE
  THEN LET n == s.cores - 1
       IN IF n < 1
          THEN [s EXCEPT !.cores = 1]
          ELSE LET upper == IF n < 2 THEN CoreLimit(1)
                            ELSE IF n < 3 THEN CoreLimit(2) ELSE CoreLimit(3)
                   lower == IF n < 3 THEN CoreLimit(0) ELSE CoreLimit(2)
               IN [s EXCEPT !.cores = n,
                            !.cpu = Interpolate(pt, lower, upper),
                            !.integral = IF s.integral > 50
                                         THEN s.integral - 10 ELSE s.integral]
  ELSE s

\* lines 345-403: one activation of the adjustment routine
Gearbox(s, pt, p) ==
  LET r == adjust(pt, p, s.integral, s.pid, s.previous_error)
      s1 == [s EXCEPT !.adjust_interval = 0,
                      !.cpu = s.cpu + r[1],
                      !.integral = r[2],
                      !.previous_error = r[3]]
      s2 == IF pt > CoreLimit(s1.cores) THEN Upshift(s1, pt)
            ELSE IF s1.cores > 1 THEN Downshift(s1, pt)
            ELSE s1
  IN [s2 EXCEPT !.cpu = ClampCpu(s2.cpu)]

\* (variant checked against C16: the routine due once the counter reaches
\* ADJUST_INTERVAL)
GearboxDue_AtInterval(s) ==
  /\ s.mode # MODE_LIMIT_TEST
  /\ s.powered = 1
  /\ s.adjust_interval >= ADJUST_INTERVAL

\* (variant checked against C19: the mode not looked at)
GearboxDue_AnyMode(s) ==
  /\ s.powered = 1
  /\ s.adjust_interval > ADJUST_INTERVAL

\* lines 341-344: when the adjustment routine runs
GearboxDue(s) ==
  /\ s.mode # MODE_LIMIT_TEST
  /\ s.powered = 1
  /\ s.adjust_interval > ADJUST_INTERVAL

GearboxStep(s, pt, p) == IF GearboxDue(s) THEN Gearbox(s, pt, p) ELSE s

\* lines 413-420: the two if/else statements on power_counter, in order
CountPower(s, pt) ==
  LET c1 == IF pt < MIN_POWER /\ s.powered = 1 THEN s.power_counter - 1 ELSE 0
  IN IF pt > MIN_POWER /\ s.powered = 0 THEN c1 + 1 ELSE 0

\* (variant checked against C4: the on comparison against 0, not ON_LIMIT)
PowerOnDue_AtFirstCount(counter) == counter > 0

\* line 422
PowerOnDue(counter) == counter > ON_LIMIT
\* line 427
PowerOffDue(counter) == counter < OFF_LIMIT

\* lines 408-434: computer state control
PowerStateMachine(s, pt) ==
  IF s.mode # MODE_LIMIT_TEST
  THEN LET c == CountPower(s, pt)
           s1 == [s EXCEPT !.power_counter = c]
       IN IF PowerOnDue(c)
          THEN [s1 EXCEPT !.pwr_calls = Append(@, "power_on"),
                          !.cores = 1,
                          !.powered = 1]
          ELSE IF PowerOffDue(c)
          THEN [s1 EXCEPT !.pwr_calls = Append(@, "power_off"),
                          !.cores = 0,
                          !.sent = Append(@, <<"shutdown", 0, 0>>),
                          !.powered = 0]
          ELSE s1
  ELSE IF s.powered = 0
  THEN [s EXCEPT !.pwr_calls = Append(@, "power_on"), !.powered = 1]
  ELSE s

\* lines 437-439
IntervalStep(s) ==
  [s EXCEPT !.adjust_interval =
     (IF s.adjust_interval > ADJUST_INTERVAL THEN 0 ELSE s.adjust_interval) + 1]

\* (variant checked against C11: the status poll sent before the command)
Dispatch_PollFirst(s) ==
  IF s.powered = 1
  THEN [s EXCEPT !.sent = @ \o << <<"status", 0, 0>>,
                                  <<"control", s.cores, s.cpu>> >>]
  ELSE s

\* lines 442-445: issue commands to the client
Dispatch(s) ==
  IF s.powered = 1
  THEN [s EXCEPT !.sent = @ \o << <<"control", s.cores, s.cpu>>,
                                  <<"status", 0, 0>> >>]
  ELSE s

\* lines 341-445
ControlSection(s, pt, p) ==
  Dispatch(IntervalStep(PowerStateMachine(GearboxStep(s, pt, p), pt)))

---------------------------------------------------------------------------
\* The console (lines 73-163).  readFloat returns None on an empty or
\* invalid line and every prompt loops until it returns a number, so a
\* prompt's outcome is the first valid number typed.  inp is what the
\* operator types: [key, sel, gains, cpu, core, power]; sel is the letter
\* typed after "m", gains the three numbers typed after "p", cpu and core
\* the numbers typed at the limit prompts, power at the power prompt.

\* lines 90-102: the selection is read only under `if not mode`
SelectMode(m, inp) ==
  IF inp.key = "m" /\ m = MODE_AUTO
  THEN IF inp.sel = "l" THEN MODE_LIMIT_TEST
       ELSE IF inp.sel = "p" THEN MODE_PWR_TEST
       ELSE IF inp.sel = "a" THEN MODE_AUTO
       ELSE m
  ELSE m

\* lines 104-119
EnterGains(gains, inp) == IF inp.key = "p" THEN inp.gains ELSE gains

\* lines 136-140: the cpu limit is kept as the float typed, clamped
EnterCpu(x) ==
  IF x > CPU_CEIL THEN CPU_CEIL ELSE IF x < CPU_FLOOR THEN CPU_FLOOR ELSE x

\* lines 145-149: clamp, then int(); c is in tenths
EnterCores(c) ==
  (IF c > 4 * 10 THEN 4 * 10 ELSE IF c < 1 * 10 THEN 1 * 10 ELSE c) \div 10

\* lines 85-163: returns <<mode, pid, processor_limits, manual_target>>.
\* The power prompt (lines 152-159) reads a number into i and drops it:
\* manual_target is returned as it was passed in.
interface(m, gains, limits, target, inp) ==
  LET m2 == SelectMode(m, inp)
      limits2 == IF m2 = MODE_LIMIT_TEST
                 THEN <<EnterCpu(inp.cpu), EnterCores(inp.core)>>
                 ELSE limits
  IN <<m2, EnterGains(gains, inp), limits2, target>>

\* What the operator can type, given what the console will prompt for.
Inputs(m) ==
  { inp \in [key : Keys, sel : Selections \cup {""},
             gains : GainEntries \cup {<<>>},
             cpu : CpuEntries \cup {0}, core : CoreEntries \cup {-1},
             power : PowerEntries \cup {-1}] :
      /\ (inp.sel = "") = (inp.key # "m")
      /\ (inp.gains = <<>>) = (inp.key # "p")
      /\ (inp.cpu = 0) = (SelectMode(m, inp) # MODE_LIMIT_TEST)
      /\ (inp.core = -1) = (SelectMode(m, inp) # MODE_LIMIT_TEST)
      /\ (inp.power = -1) = (SelectMode(m, inp) # MODE_PWR_TEST) }

\* The part of an input kept in `entry`: the mode letter typed after "m"
\* ("" when the command was not "m") and the power typed (-1 when the power
\* prompt did not come up).
Typed(inp) == [sel |-> inp.sel, power |-> inp.power]

NoEntry == [sel |-> "", power |-> -1]

\* `act` before the adjustment routine has run.
NoAct == [cores |-> 0, cpu |-> 0, integral |-> 0, previous_error |-> 0,
          delta |-> 0, returned |-> 0, error |-> 0, zeros |-> 0,
          dir |-> "", before |-> ""]

---------------------------------------------------------------------------
\* Status ingestion (lines 278-288).  msg = <<kind, value>>:
\*   "none"            wait_msg returned None
\*   "status"          "status:<number>"
\*   "status_bad"      "status:<not a number>": float raises ValueError, caught
\*   "status_nofield"  "status": data[1] raises IndexError, not caught
\*   "other"           any other prefix: cpu_use keeps its value
IngestStatus(cpu, msg) ==
  IF msg[1] = "none" THEN [cpu_use |-> 0, raised |-> ""]
  ELSE IF msg[1] = "status" THEN [cpu_use |-> msg[2], raised |-> ""]
  ELSE IF msg[1] = "status_bad" THEN [cpu_use |-> 0, raised |-> ""]
  ELSE IF msg[1] = "status_nofield" THEN [cpu_use |-> cpu, raised |-> "IndexError"]
  ELSE [cpu_use |-> cpu, raised |-> ""]

---------------------------------------------------------------------------
\* The averaging windows (lines 308-321).  w = [supply_power,
\* supply_power_avg, usage_power, usage_power_avg, raised]; v is the value
\* logged for the supply rail.  Nothing is appended to the usage windows;
\* list.pop(0) of an empty list raises IndexError.

\* line 308-313: the value logged for the supply rail
SupplyValue(m, measured_supply, manual) ==
  IF m < MODE_PWR_TEST THEN measured_supply ELSE manual

\* lines 316-318
DropShort(w) ==
  IF Len(w.supply_power) > SHORT_AVG
  THEN IF w.usage_power = <<>>
       THEN [w EXCEPT !.supply_power = Tail(@), !.raised = "IndexError"]
       ELSE [w EXCEPT !.supply_power = Tail(@), !.usage_power = Tail(@)]
  ELSE w

\* lines 319-321
DropLong(w) ==
  IF Len(w.supply_power_avg) > LONG_AVG
  THEN IF w.usage_power_avg = <<>>
       THEN [w EXCEPT !.supply_power_avg = Tail(@), !.raised = "IndexError"]
       ELSE [w EXCEPT !.supply_power_avg = Tail(@), !.usage_power_avg = Tail(@)]
  ELSE w

\* lines 308-321
Observe(w, v) ==
  LET a == [w EXCEPT !.supply_power = Append(@, v),
                     !.supply_power_avg = Append(@, v)]
      b == DropShort(a)
  IN IF b.raised # "" THEN b ELSE DropLong(b)

---------------------------------------------------------------------------
\* The program.

\* State after construction (lines 208-262).  manual_target and power are
\* first assigned inside the loop; they start at 0 here.
Init ==
  /\ pc = "poll"
  /\ mode = MODE_AUTO
  /\ pid = InitPid
  /\ processor_limits = InitLimits
  /\ manual_target = 0
  /\ manual_power_target = 0
  /\ adjust_interval = 0
  /\ powered = 0
  /\ power_counter = 0
  /\ power_target = 0
  /\ power = 0
  /\ cpu_use = 0
  /\ integral = 0
  /\ previous_error = 0
  /\ supply_power = <<0>>
  /\ supply_power_avg = <<0>>
  /\ usage_power = <<0>>
  /\ usage_power_avg = <<0>>
  /\ pwr_calls = <<>>
  /\ sent = <<>>
  /\ was_powered = 0
  /\ ticks = 0
  /\ folded = 0
  /\ entry = NoEntry
  /\ run_above = 0
  /\ run_on = FALSE
  /\ geared = <<>>
  /\ supply_seen = <<>>
  /\ usage_seen = <<>>
  /\ inbound = ""
  /\ act = NoAct
  /\ exception = ""

\* The loop state handed to the control section.
LoopState ==
  [mode |-> mode, pid |-> pid,
   cpu |-> processor_limits[1], cores |-> processor_limits[2],
   integral |-> integral, previous_error |-> previous_error,
   adjust_interval |-> adjust_interval, powered |-> powered,
   power_counter |-> power_counter, pwr_calls |-> <<>>, sent |-> <<>>]

WindowState ==
  [supply_power |-> supply_power, supply_power_avg |-> supply_power_avg,
   usage_power |-> usage_power, usage_power_avg |-> usage_power_avg,
   raised |-> ""]

\* An uncaught exception ends the program.
Raise(e) == pc' = "crashed" /\ exception' = e

StoreWindows(w) ==
  /\ supply_power' = w.supply_power
  /\ supply_power_avg' = w.supply_power_avg
  /\ usage_power' = w.usage_power
  /\ usage_power_avg' = w.usage_power_avg

\* The control section applied to the loop variables, for the averages pt, p.
RunControl(pt, p) ==
  LET s == ControlSection(LoopState, pt, p)
      g == GearboxStep(LoopState, pt, p)
      counting == /\ mode # MODE_LIMIT_TEST
                  /\ pt > MIN_POWER
                  /\ (run_above > 0 \/ powered = 0)
      on == \E i \in 1..Len(s.pwr_calls) : s.pwr_calls[i] = "power_on"
  IN /\ processor_limits' = <<s.cpu, s.cores>>
     /\ integral' = s.integral
     /\ previous_error' = s.previous_error
     /\ adjust_interval' = s.adjust_interval
     /\ powered' = s.powered
     /\ power_counter' = s.power_counter
     /\ pwr_calls' = s.pwr_calls
     /\ sent' = s.sent
     /\ run_above' = IF counting THEN Min(run_above + 1, ON_LIMIT + 2) ELSE 0
     /\ run_on' = (counting /\ ((run_above > 0 /\ run_on) \/ on))
     /\ geared' = IF GearboxDue(LoopState) THEN <<g.cores, g.cpu>> ELSE <<>>
     /\ UNCHANGED <<mode, pid, manual_target, manual_power_target>>

\* lines 269-274 with no line waiting on stdin
NoKey ==
  /\ pc = "poll"
  /\ pc' = "run"
  /\ UNCHANGED <<ctl, meas, windows, obs, seen, probe, entry, exception>>

\* lines 269-274 with a line waiting: interface runs
Console ==
  /\ pc = "poll"
  /\ \E inp \in Inputs(mode) :
       LET r == interface(mode, pid, processor_limits, manual_target, inp)
       IN /\ mode' = r[1]
          /\ pid' = r[2]
          /\ processor_limits' = r[3]
          /\ manual_target' = r[4]
          /\ entry' = Typed(inp)
  /\ pc' = "run"
  /\ UNCHANGED <<manual_power_target, adjust_interval, powered, power_counter,
                 integral, previous_error>>
  /\ UNCHANGED <<meas, windows, obs, seen, probe, exception>>

\* lines 277-445: the rest of one loop iteration
Tick ==
  /\ pc = "run"
  /\ \E msg \in Messages, sup \in Targets, use \in Usages :
       LET st == IngestStatus(cpu_use, msg)
           v == SupplyValue(mode, sup, manual_power_target)
           w == Observe(WindowState, v)
       IN /\ ticks' = Min(ticks + 1, MaxTicks)
          /\ was_powered' = powered
          /\ cpu_use' = st.cpu_use
          /\ inbound' = msg[1]
          /\ IF st.raised # ""
             THEN /\ Raise(st.raised)
                  /\ UNCHANGED <<ctl, windows, seen, power_target, power,
                                 pwr_calls, sent, folded, run_above, run_on,
                                 geared>>
             ELSE /\ supply_seen' = Append(supply_seen, sup)
                  /\ usage_seen' = Append(usage_seen, use)
                  /\ StoreWindows(w)
                  /\ folded' = v
                  /\ IF w.raised # ""
                     THEN /\ Raise(w.raised)
                          /\ UNCHANGED <<ctl, power_target, power, pwr_calls,
                                         sent, run_above, run_on, geared>>
                     ELSE /\ power_target' = average(w.supply_power)
                          /\ IF w.usage_power = <<>>
                             THEN /\ Raise("ZeroDivisionError")
                                  /\ UNCHANGED <<ctl, power, pwr_calls, sent,
                                                 run_above, run_on, geared>>
                             ELSE /\ power' = average(w.usage_power)
                                  /\ RunControl(average(w.supply_power),
                                                average(w.usage_power))
                                  /\ pc' = "poll"
                                  /\ UNCHANGED exception
  /\ UNCHANGED <<entry, act>>

Next == NoKey \/ Console \/ Tick

Spec == Init /\ [][Next]_vars

---------------------------------------------------------------------------
\* The control section as a unit (lines 341-445).  In the program no tick
\* reaches line 341 (see Tick), so the section is also checked on its own,
\* given the two averages power_target and power as the inputs of each tick:
\*   SpecControl  from the program's initial state, with the console;
\*   SpecGearbox  from every state of the loop variables that the program's
\*                data admits (any mode, any gains the console accepts, the
\*                machine off or on, a core count of 0 exactly when the
\*                machine is off outside MODE_LIMIT_TEST), so that the
\*                adjustment routine is applied to every such input.

InitCpus == {CPU_FLOOR, 50 * CpuUnit, CPU_CEIL}
InitIntegrals == {0, 60}
InitErrors == {0, 50}

InitGearbox ==
  /\ pc = "poll"
  /\ mode \in {MODE_AUTO, MODE_LIMIT_TEST, MODE_PWR_TEST}
  /\ pid \in GainEntries \cup {InitPid}
  /\ powered \in {0, 1}
  /\ processor_limits \in InitCpus \X (0..CORES)
  /\ (processor_limits[2] = 0) = (powered = 0 /\ mode # MODE_LIMIT_TEST)
  /\ manual_target = 0
  /\ manual_power_target = 0
  /\ adjust_interval \in 0..(ADJUST_INTERVAL + 1)
  /\ power_counter = 0
  /\ power_target = 0
  /\ power = 0
  /\ cpu_use = 0
  /\ integral \in InitIntegrals
  /\ previous_error \in InitErrors
  /\ supply_power = <<0>>
  /\ supply_power_avg = <<0>>
  /\ usage_power = <<0>>
  /\ usage_power_avg = <<0>>
  /\ pwr_calls = <<>>
  /\ sent = <<>>
  /\ was_powered = powered
  /\ ticks = 0
  /\ folded = 0
  /\ entry = NoEntry
  /\ run_above = 0
  /\ run_on = FALSE
  /\ geared = <<>>
  /\ supply_seen = <<>>
  /\ usage_seen = <<>>
  /\ inbound = ""
  /\ act = NoAct
  /\ exception = ""

\* lines 341-445 for the averages pt and p
ControlTick ==
  /\ pc = "run"
  /\ \E pt \in Targets, p \in Powers :
       /\ power_target' = pt
       /\ power' = p
       /\ RunControl(pt, p)
  /\ ticks' = Min(ticks + 1, MaxTicks)
  /\ was_powered' = powered
  /\ pc' = "poll"
  /\ UNCHANGED <<cpu_use, windows, seen, probe, folded, entry, exception>>

NextControl == NoKey \/ Console \/ ControlTick

SpecControl == Init /\ [][NextControl]_vars

NextGearbox == NoKey \/ ControlTick

SpecGearbox == InitGearbox /\ [][NextGearbox]_vars

---------------------------------------------------------------------------
\* The adjustment routine as a function (lines 345-403), applied again and
\* again to its own result: a powered machine outside MODE_LIMIT_TEST, a
\* supply average power_target that stays where it is, and one usage average
\* per activation.  In the loop the power state machine of lines 408-430
\* switches the machine off after every activation (see C2), so consecutive
\* activations are examined here.

MaxActivations == 3

\* supply averages: below every entry, in the deadzone under core_limits[1],
\* between the entries, and above the last
ShiftTargets == {100, 305, 320, 400, 490, 600}
AdjustIntegrals == {-100, 0, 60, 100}

InitAdjust ==
  /\ pc = "poll"
  /\ mode \in {MODE_AUTO, MODE_PWR_TEST}
  /\ pid \in GainEntries \cup {InitPid}
  /\ powered = 1
  /\ processor_limits \in InitCpus \X (1..CORES)
  /\ manual_target = 0
  /\ manual_power_target = 0
  /\ adjust_interval = ADJUST_INTERVAL + 1
  /\ power_counter = 0
  /\ power_target \in ShiftTargets
  /\ power = 0
  /\ cpu_use = 0
  /\ integral \in AdjustIntegrals
  /\ previous_error \in InitErrors
  /\ supply_power = <<0>>
  /\ supply_power_avg = <<0>>
  /\ usage_power = <<0>>
  /\ usage_power_avg = <<0>>
  /\ pwr_calls = <<>>
  /\ sent = <<>>
  /\ was_powered = 1
  /\ ticks = 0
  /\ folded = 0
  /\ entry = NoEntry
  /\ run_above = 0
  /\ run_on = FALSE
  /\ geared = <<>>
  /\ supply_seen = <<>>
  /\ usage_seen = <<>>
  /\ inbound = ""
  /\ act = NoAct
  /\ exception = ""

\* The direction in which an activation moved the core count.
Direction(from, to) ==
  IF to > from THEN "up" ELSE IF to < from THEN "down" ELSE "hold"

\* lines 345-403 for the usage average p; `ticks` counts the activations
Activate ==
  /\ GearboxDue(LoopState)
  /\ ticks < MaxActivations
  /\ \E p \in Powers \cup {power_target} :
       LET r == adjust(power_target, p, integral, pid, previous_error)
           s == Gearbox(LoopState, power_target, p)
       IN /\ power' = p
          /\ processor_limits' = <<s.cpu, s.cores>>
          /\ integral' = s.integral
          /\ previous_error' = s.previous_error
          /\ geared' = <<s.cores, s.cpu>>
          /\ act' = [cores |-> processor_limits[2],
                     cpu |-> processor_limits[1],
                     integral |-> integral,
                     previous_error |-> previous_error,
                     delta |-> r[1], returned |-> r[2], error |-> r[3],
                     zeros |-> IF p = power_target
                               THEN Min(act.zeros + 1, 2) ELSE 0,
                     dir |-> Direction(processor_limits[2], s.cores),
                     before |-> act.dir]
  /\ ticks' = ticks + 1
  /\ UNCHANGED <<pc, mode, pid, manual_target, manual_power_target,
                 adjust_interval, powered, power_counter, power_target,
                 cpu_use, windows, pwr_calls, sent, was_powered, folded,
                 run_above, run_on, seen, inbound, entry, exception>>

NextAdjust == Activate

SpecAdjust == InitAdjust /\ [][NextAdjust]_vars

---------------------------------------------------------------------------
\* The averaging windows as a unit (lines 308-321): the windows of the
\* program's initial state, one sample of each rail logged per tick, and no
\* average taken in between.

ObserveTick ==
  /\ exception = ""
  /\ Len(supply_seen) < LONG_AVG + MaxTicks
  /\ \E sup \in Targets, use \in Usages :
       LET v == SupplyValue(mode, sup, manual_power_target)
           w == Observe(WindowState, v)
       IN /\ supply_seen' = Append(supply_seen, sup)
          /\ usage_seen' = Append(usage_seen, use)
          /\ StoreWindows(w)
          /\ folded' = v
          /\ IF w.raised # ""
             THEN Raise(w.raised)
             ELSE UNCHANGED <<pc, exception>>
  /\ ticks' = Min(ticks + 1, MaxTicks)
  /\ UNCHANGED <<ctl, meas, pwr_calls, sent, was_powered, run_above, run_on,
                 geared, probe, entry>>

NextAverager == ObserveTick

SpecAverager == Init /\ [][NextAverager]_vars

---------------------------------------------------------------------------
\* Observations used by the properties.

\* A tick has run and the loop is back at its top (or the program ended in it).
AfterTick == ticks >= 1 /\ pc # "run"

Issued(call) == \E i \in 1..Len(pwr_calls) : pwr_calls[i] = call
Sent(kind) == \E i \in 1..Len(sent) : sent[i][1] = kind
CountSent(kind) == Cardinality({i \in 1..Len(sent) : sent[i][1] = kind})

\* The last n entries of a sequence of at least n entries.
LastN(q, n) == SubSeq(q, Len(q) - n + 1, Len(q))

ModeOf(sel) ==
  IF sel = "l" THEN MODE_LIMIT_TEST
  ELSE IF sel = "p" THEN MODE_PWR_TEST ELSE MODE_AUTO

\* The control and status messages of the last tick, in the order sent.
IsClientCommand(m) == m[1] \in {"control", "status"}
ClientCommands == SelectSeq(sent, IsClientCommand)

---------------------------------------------------------------------------
\* Properties.

\* C1 (as claimed): in AUTOMATIC or MANUAL_POWER mode, starting unpowered,
\* once power_target has been above MIN_POWER on ON_LIMIT+2 consecutive
\* ticks the machine has been powered on during them and powered is true.
C1_PowerOnAfterSustainedSupply ==
  (AfterTick /\ mode # MODE_LIMIT_TEST /\ run_above >= ON_LIMIT + 2)
    => (run_on /\ powered = 1)

\* C2 (as claimed): outside MANUAL_LIMIT, power_off is issued (and the
\* machine marked unpowered with 0 cores) only on a tick whose power_target
\* is below MIN_POWER; never on a tick at or above MIN_POWER.
C2_PowerOffOnlyBelowMinPower ==
  (AfterTick /\ mode # MODE_LIMIT_TEST /\ Issued("power_off"))
    => power_target < MIN_POWER

\* C3 (as claimed): "shutdown:" is emitted only on a tick that makes the
\* powered -> OFF transition, and once on it; on ticks where the machine
\* was already unpowered no "shutdown:" is emitted.
C3_ShutdownOnlyOnPowerOff ==
  AfterTick =>
    /\ Sent("shutdown") => (was_powered = 1 /\ powered = 0)
    /\ CountSent("shutdown") <= 1

\* C4: outside MANUAL_LIMIT an unpowered machine is powered on only on a
\* tick where the on-tendency counter exceeds ON_LIMIT: never on a tick
\* whose power_target is not above MIN_POWER, never within the first
\* ON_LIMIT consecutive above-threshold ticks; and a tick whose power_target
\* is not above MIN_POWER leaves the counter at 0.
C4_NoPrematurePowerOn ==
  (AfterTick /\ mode # MODE_LIMIT_TEST) =>
    /\ (Issued("power_on") \/ (was_powered = 0 /\ powered = 1))
         => /\ power_counter > ON_LIMIT
            /\ power_target > MIN_POWER
            /\ run_above > ON_LIMIT
    /\ ~(power_target > MIN_POWER) => power_counter = 0

\* C4's case: the second consecutive tick above MIN_POWER of an unpowered
\* machine has run, the counter has counted and the machine is still off.
C4_Witness ==
  /\ AfterTick /\ mode # MODE_LIMIT_TEST
  /\ run_above = ON_LIMIT /\ power_counter > 0 /\ powered = 0
  /\ ~Issued("power_on")

\* C5 (as claimed): once the mode is MANUAL_LIMIT, the first tick issues
\* power_on and sets powered, powered stays true on every later tick in
\* that mode, and neither power_off nor "shutdown:" is issued in it.
C5_ManualLimitForcesOn ==
  (AfterTick /\ mode = MODE_LIMIT_TEST) =>
    /\ powered = 1
    /\ (was_powered = 0) = Issued("power_on")
    /\ ~Issued("power_off") /\ ~Sent("shutdown")

\* C6: after every activation of the adjustment routine cpu_percent is in
\* [7,100] and the core count in [1,4]; the core count is 0 only when the
\* machine is unpowered, and no control command carries a core count
\* outside 1..4.
C6_GearboxClamp ==
  /\ geared # <<>> => /\ geared[1] \in 1..CORES
                      /\ geared[2] >= CPU_FLOOR /\ geared[2] <= CPU_CEIL
  /\ processor_limits[2] = 0 => powered = 0
  /\ \A i \in 1..Len(sent) :
       sent[i][1] = "control" => sent[i][2] \in 1..CORES

\* C6's case: the routine ran, shifted down to one core, and the lower
\* clamp replaced the interpolated value.
C6_Witness ==
  /\ geared = <<1, CPU_FLOOR>>
  /\ power_target < CoreLimit(0)

\* C7 (as claimed): every window handed to average holds at least one
\* entry, so average never divides by a zero length.
C7_WindowsNeverEmpty ==
  /\ Len(supply_power) >= 1
  /\ Len(usage_power) >= 1
  /\ exception # "ZeroDivisionError"

\* C8 (as claimed): no window is longer than its capacity, and once more
\* than `capacity` samples of a rail have been observed its window holds
\* exactly the last `capacity` of them, in arrival order.
C8_WindowsHoldLastSamples ==
  /\ Len(supply_power) <= SHORT_AVG /\ Len(usage_power) <= SHORT_AVG
  /\ Len(supply_power_avg) <= LONG_AVG /\ Len(usage_power_avg) <= LONG_AVG
  /\ Len(supply_seen) > SHORT_AVG => supply_power = LastN(supply_seen, SHORT_AVG)
  /\ Len(usage_seen) > SHORT_AVG => usage_power = LastN(usage_seen, SHORT_AVG)
  /\ Len(supply_seen) > LONG_AVG => supply_power_avg = LastN(supply_seen, LONG_AVG)
  /\ Len(usage_seen) > LONG_AVG => usage_power_avg = LastN(usage_seen, LONG_AVG)

\* C9 (as claimed): in MANUAL_POWER mode the value logged to the supply
\* windows by a tick is the power target the operator last entered, so
\* that (SHORT_AVG = 1) power_target equals it.
C9_ManualPowerIsFolded ==
  (AfterTick /\ mode = MODE_PWR_TEST /\ entry.power # -1
     /\ exception # "IndexError")
    => (folded = entry.power /\ power_target = entry.power)

\* C10 (as claimed): a mode-select command ("m", then the letter of a
\* mode) brings the controller to the selected mode, from whichever mode
\* it is in.
C10_ModeSelectTakesEffect ==
  entry.sel \in {"l", "p", "a"} => mode = ModeOf(entry.sel)

\* C11: a tick that ends powered sends exactly one control message, carrying
\* the core count and cpu_percent the tick ends with, and then exactly one
\* status poll; a tick that ends unpowered sends neither.
C11_DispatchPerTick ==
  AfterTick =>
    ClientCommands =
      IF powered = 1
      THEN << <<"control", processor_limits[2], processor_limits[1]>>,
              <<"status", 0, 0>> >>
      ELSE <<>>

\* C11's case: a second tick in a row has ended powered, on limits the
\* operator entered, and has sent its command.
C11_Witness ==
  /\ AfterTick /\ ticks >= 2 /\ powered = 1 /\ was_powered = 1
  /\ processor_limits[1] > CPU_FLOOR
  /\ Sent("control")

\* The last tick ended at the status ingestion: the program raised before
\* that tick's measurement was taken.
IngestionFailed ==
  pc = "crashed" /\ exception = "IndexError" /\ Len(supply_seen) < ticks

\* C12 (as claimed): whatever wait_msg returned (nothing, a numeric status,
\* a non-numeric status, "status" without a value field, another prefix),
\* the tick goes on past the ingestion, and after a missing or malformed
\* reading the CPU use of the tick is 0.
C12_FailSoftIngestion ==
  AfterTick =>
    /\ ~IngestionFailed
    /\ inbound \in {"none", "status_bad", "status_nofield"} => cpu_use = 0

\* C13: the integral is within [-10, 10] in every state: as adjust returns
\* it, and as the routine leaves it after the damping of a change downward
\* (1 taken off an integral above 5).
C13_IntegralBounded ==
  /\ integral >= -100 /\ integral <= 100
  /\ act.returned >= -100 /\ act.returned <= 100

\* C13's case: adjust limited the integral to 10 (the sum was above it) and
\* the change downward of the same activation damped it to 9.
C13_Witness ==
  /\ act.dir = "down"
  /\ act.integral + act.error * DT > 100
  /\ act.returned = 100
  /\ integral = 90

\* C14: when adjust is called with target equal to measured, the error is 0
\* and the integral returned is the integral passed in; from the second such
\* call in a row on, the delta returned is ki * integral / 10 for the
\* integral passed in (gains in halves, integral in tenths, delta in
\* 1/CpuUnit of a percent).
C14_ZeroErrorPid ==
  act.zeros >= 1 =>
    /\ act.error = 0
    /\ act.returned = act.integral
    /\ act.zeros >= 2 =>
         act.delta * 2 * 10 * 10 = pid[2] * act.integral * CpuUnit

\* C14's case: a second call in a row at zero error, with an integral and
\* gains for which the integral term and the derivative gain are not 0.
C14_Witness ==
  /\ act.zeros >= 2
  /\ act.integral # 0 /\ pid[2] # 0 /\ pid[3] # 0
  /\ act.delta # 0

\* A cpu limit that is a whole number of percent within [7, 100].
WholePercent(x) == x % CpuUnit = 0 /\ x >= CPU_FLOOR /\ x <= CPU_CEIL

\* C15 (as claimed): in every state, and in every control message sent,
\* cpu_percent is an integer within [7, 100], also after an activation of
\* the adjustment routine that only adds the PID delta.
C15_CpuPercentIsInteger ==
  /\ WholePercent(processor_limits[1])
  /\ \A i \in 1..Len(sent) :
       sent[i][1] = "control" => WholePercent(sent[i][3])

\* A step that runs the control section of one tick to its end.
TickStep == pc = "run" /\ pc' = "poll"

\* C16: the tick counter is within 0..ADJUST_INTERVAL+1 at every tick
\* boundary, powered or not, and goes round in ADJUST_INTERVAL+1 ticks: a
\* tick begun with the counter at ADJUST_INTERVAL+1 leaves it at 1 (reset,
\* then counted), any other tick counts it up by 1.  On a powered machine
\* outside MANUAL_LIMIT the adjustment routine runs on exactly the ticks
\* begun with the counter at ADJUST_INTERVAL+1, which is one tick out of
\* every ADJUST_INTERVAL+1 consecutive ones.
C16_GearboxCadence ==
  [][TickStep =>
       /\ adjust_interval \in 0..(ADJUST_INTERVAL + 1)
       /\ adjust_interval' \in 1..(ADJUST_INTERVAL + 1)
       /\ adjust_interval' = IF adjust_interval = ADJUST_INTERVAL + 1
                             THEN 1 ELSE adjust_interval + 1
       /\ (powered = 1 /\ mode # MODE_LIMIT_TEST) =>
            ((geared' # <<>>) = (adjust_interval = ADJUST_INTERVAL + 1))
       /\ (powered = 0 \/ mode = MODE_LIMIT_TEST) => geared' = <<>>]_vars

\* C16's case: a tick of a powered machine outside MANUAL_LIMIT has run the
\* adjustment routine and left the counter reset and counted once.
C16_Witness ==
  /\ AfterTick /\ was_powered = 1 /\ mode # MODE_LIMIT_TEST
  /\ geared # <<>>
  /\ adjust_interval = 1

\* x brought into [7, 100] percent.
Within(x) ==
  IF x > CPU_CEIL THEN CPU_CEIL ELSE IF x < CPU_FLOOR THEN CPU_FLOOR ELSE x

\* An activation has been made.
Activated == act.dir # ""

\* C17: an activation whose power_target is above the table entry of the
\* core count c it starts with raises the count to c+1 when c < 4 and sets
\* cpu_percent to the whole number of 100 * (power_target - lower) /
\* (upper - lower), lower and upper being the entries of c and c+1, brought
\* into [7, 100], whatever the PID delta was; when c = 4 the count stays 4
\* and cpu_percent is the PID-adjusted value brought into [7, 100].
C17_UpshiftSnap ==
  (Activated /\ power_target > CoreLimit(act.cores)) =>
    IF act.cores < CORES
    THEN LET lower == CoreLimit(act.cores)
             upper == CoreLimit(act.cores + 1)
         IN /\ processor_limits[2] = act.cores + 1
            /\ processor_limits[1] =
                 Within(((100 * (power_target - lower)) \div (upper - lower))
                          * CpuUnit)
    ELSE /\ processor_limits[2] = CORES
         /\ processor_limits[1] = Within(act.cpu + act.delta)

\* C17's case: the core count went up and cpu_percent was set to an
\* interpolated value inside (7, 100) that is not the PID-adjusted one.
C17_Witness ==
  /\ act.dir = "up"
  /\ processor_limits[1] > CPU_FLOOR /\ processor_limits[1] < CPU_CEIL
  /\ processor_limits[1] # Within(act.cpu + act.delta)
  /\ act.delta # 0

\* C18: with power_target held at one value, of two activations in a row
\* the second never moves the core count against the first (no change
\* upward after one downward, none downward after one upward), and once an
\* activation has left the count where it was the next one does too.
C18_NoGearHunting ==
  /\ ~(act.before = "down" /\ act.dir = "up")
  /\ ~(act.before = "up" /\ act.dir = "down")
  /\ act.before = "hold" => act.dir = "hold"

\* C18's case: the count went down and the next activation, with
\* power_target still under the table entry just left but inside the
\* deadzone, kept it.
C18_Witness ==
  /\ act.before = "down" /\ act.dir = "hold"
  /\ processor_limits[2] > 1
  /\ power_target < CoreLimit(processor_limits[2] - 1)
  /\ power_target >= CoreLimit(processor_limits[2] - 1) - CHANGE_DEADZONE

\* C19: a tick in MANUAL_LIMIT leaves cpu_percent, the core count, the
\* integral, previous_error and the power counter as they were, whatever
\* the averages and the status message; the limits of that mode change only
\* in a console step, to a cpu_percent within [7, 100] and a core count
\* within 1..4; the console leaves the integral, previous_error and the
\* power counter alone.
C19_ManualLimitFrame ==
  [][/\ (mode = MODE_LIMIT_TEST /\ pc = "run") =>
          UNCHANGED <<processor_limits, integral, previous_error,
                      power_counter>>
     /\ ((mode = MODE_LIMIT_TEST \/ mode' = MODE_LIMIT_TEST)
           /\ processor_limits' # processor_limits) =>
          /\ pc = "poll" /\ pc' = "run"
          /\ processor_limits'[1] >= CPU_FLOOR
          /\ processor_limits'[1] <= CPU_CEIL
          /\ processor_limits'[2] \in 1..CORES
          /\ UNCHANGED <<integral, previous_error, power_counter>>]_vars

\* C19's case: the operator's entries were clamped to 100 percent and 4
\* cores, and a tick whose power_target is below MIN_POWER has run in
\* MANUAL_LIMIT on a machine already on, leaving them and the counter.
C19_Witness ==
  /\ AfterTick /\ mode = MODE_LIMIT_TEST
  /\ was_powered = 1 /\ powered = 1
  /\ power_target < MIN_POWER
  /\ processor_limits = <<CPU_CEIL, CORES>>
  /\ power_counter = 0

\* C20: one activation moves the core count by at most 1, however far
\* power_target is from the table entry of the count; when power_target is
\* above that entry the count goes up (to 4 at most) and never down; the
\* count goes down only from above 1, so it is never below 1.
C20_OneGearPerActivation ==
  Activated =>
    /\ Abs(processor_limits[2] - act.cores) <= 1
    /\ processor_limits[2] >= 1
    /\ power_target > CoreLimit(act.cores) =>
         processor_limits[2] = Min(act.cores + 1, CORES)
    /\ act.dir = "down" =>
         /\ act.cores > 1
         /\ power_target < CoreLimit(act.cores - 1) - CHANGE_DEADZONE

\* C20's case: with power_target above the last table entry, three
\* activations have taken the count from 1 to CORES, one core each.
C20_Witness ==
  /\ ticks = CORES - 1
  /\ power_target > CoreLimit(CORES)
  /\ act.before = "up" /\ act.dir = "up"
  /\ act.cores = CORES - 1 /\ processor_limits[2] = CORES

====
